---- MODULE Spec2Model ----
(***************************************************************************)
(* A model of conversant's PromptChatbot session: the prompt template      *)
(* (ChatPrompt), the assembly of the prompt for a turn, the adaptive       *)
(* shrinking of the context window against the token budget, and the       *)
(* configure operations.                                                   *)
(*                                                                         *)
(* Text is a sequence of atoms: an atom is a word, a punctuation mark or   *)
(* one whitespace character (" " or "\n").  The tokenizer is the one the   *)
(* repository's tests use (MockCo.tokenize): the number of whitespace      *)
(* separated pieces.                                                       *)
(*                                                                         *)
(* A python dict that is iterated (headers, an interaction) is a sequence  *)
(* of [key, value] pairs in insertion order; a config dict is a function   *)
(* from its keys.                                                          *)
(***************************************************************************)
EXTENDS Integers, Sequences, FiniteSets, TLC

VARIABLES
    prompt,                     \* self.prompt (ChatPrompt fields)
    chatbot_config,             \* self.chatbot_config
    client_config,              \* self.client_config
    chat_history,               \* self.chat_history
    prompt_size_history,        \* self.prompt_size_history
    prompt_history,             \* self.prompt_history
    curr_max_context_examples,  \* self.curr_max_context_examples
    max_prompt_size,            \* self.max_prompt_size
    start_prompt_size,          \* self.start_prompt_size
    last,                       \* what the latest call did, as its caller saw it
    calls,                      \* the reply() calls in flight, by caller
    other,                      \* a second session built beside this one
    aliased                     \* the attributes whose object both sessions hold

vars == <<prompt, chatbot_config, client_config, chat_history,
          prompt_size_history, prompt_history, curr_max_context_examples,
          max_prompt_size, start_prompt_size, last, calls, other, aliased>>

-----------------------------------------------------------------------------
(* Bounds of the exploration *)

\* a session is explored up to this many turns in chat_history
MaxHistory == 3

-----------------------------------------------------------------------------
(* Program constants *)

MAX_GENERATE_TOKENS == 2048

\* the class constants of ChatPrompt
MIN_PREAMBLE_LENGTH == 10
MIN_NUM_EXAMPLES == 0

\* get_current_prompt's default for max_context_examples (None)
NoneArg == -1000

-----------------------------------------------------------------------------
(* Text *)

Whitespace == {" ", "\n"}

Min(a, b) == IF a < b THEN a ELSE b
Max(a, b) == IF a > b THEN a ELSE b

\* str.strip(): drop leading and trailing whitespace
RECURSIVE lstrip(_)
lstrip(text) ==
    IF text # <<>> /\ Head(text) \in Whitespace THEN lstrip(Tail(text)) ELSE text

RECURSIVE rstrip(_)
rstrip(text) ==
    IF text # <<>> /\ text[Len(text)] \in Whitespace
    THEN rstrip(SubSeq(text, 1, Len(text) - 1))
    ELSE text

strip(text) == rstrip(lstrip(text))

\* MockCo.tokenize(text).length: len(text.split())
tokenize(text) ==
    Cardinality({i \in 1..Len(text) :
                    /\ text[i] \notin Whitespace
                    /\ (i = 1 \/ text[i - 1] \in Whitespace)})

\* "".join(texts)
RECURSIVE join(_)
join(texts) == IF texts = <<>> THEN <<>> ELSE Head(texts) \o join(Tail(texts))

\* sep.join(texts)
RECURSIVE join_with(_, _)
join_with(sep, texts) ==
    IF texts = <<>> THEN <<>>
    ELSE IF Len(texts) = 1 THEN Head(texts)
    ELSE Head(texts) \o sep \o join_with(sep, Tail(texts))

\* s[-n:] of a python sequence, for any integer n
PySuffix_first(s, n) == SubSeq(s, 1, Min(Max(n, 0), Len(s)))
PySuffix(s, n) ==
    LET start == IF 0 - n < 0 THEN Max(Len(s) - n, 0) ELSE Min(0 - n, Len(s))
    IN  SubSeq(s, start + 1, Len(s))

\* s[:-n] of a python sequence, for n >= 0
PyDropLast(s, n) ==
    LET stop == IF 0 - n < 0 THEN Max(Len(s) - n, 0) ELSE Min(0 - n, Len(s))
    IN  SubSeq(s, 1, stop)

\* text.endswith(suffix)
endswith(text, suffix) ==
    /\ Len(suffix) <= Len(text)
    /\ SubSeq(text, Len(text) - Len(suffix) + 1, Len(text)) = suffix

-----------------------------------------------------------------------------
(* Ordered dicts *)

Keys(d) == [i \in 1..Len(d) |-> d[i].key]
HasKey(d, k) == \E i \in 1..Len(d) : d[i].key = k
Get(d, k) == d[CHOOSE i \in 1..Len(d) : d[i].key = k].value

\* d[k] = v
DictSet(d, k, v) ==
    IF HasKey(d, k)
    THEN [i \in 1..Len(d) |-> IF d[i].key = k THEN [key |-> k, value |-> v] ELSE d[i]]
    ELSE Append(d, [key |-> k, value |-> v])

\* d.update(u)
RECURSIVE DictUpdate(_, _)
DictUpdate(d, u) ==
    IF u = <<>> THEN d
    ELSE DictUpdate(DictSet(d, Head(u).key, Head(u).value), Tail(u))

\* an update that keeps the value d has for a key
ConfigUpdate_keep(d, u) ==
    [k \in DOMAIN d \cup DOMAIN u |-> IF k \in DOMAIN d THEN d[k] ELSE u[k]]

\* d.update(u) of a config dict
ConfigUpdate(d, u) ==
    [k \in DOMAIN d \cup DOMAIN u |-> IF k \in DOMAIN u THEN u[k] ELSE d[k]]

EmptyConfig == [k \in {} |-> 0]

-----------------------------------------------------------------------------
(* Prompt and ChatPrompt *)

\* create_interaction that keeps a positional value over a keyword one
create_interaction_positional(p, args, kwargs) ==
    LET new_interaction ==
            [i \in 1..Len(p.headers) |->
                [key   |-> p.headers[i].key,
                 value |-> IF i <= Len(args) THEN args[i] ELSE <<>>]]
    IN  DictUpdate(kwargs, new_interaction)

\* Prompt.create_interaction(*args, **kwargs)
create_interaction(p, args, kwargs) ==
    LET new_interaction ==
            [i \in 1..Len(p.headers) |->
                [key   |-> p.headers[i].key,
                 value |-> IF i <= Len(args) THEN args[i] ELSE <<>>]]
    IN  DictUpdate(new_interaction, kwargs)

\* create_interaction_string that always builds the interaction from headers
create_interaction_string_header_order(p, args, kwargs) ==
    LET interaction == create_interaction(p, args, kwargs)
    IN  join([i \in 1..Len(interaction) |->
                Get(p.headers, interaction[i].key) \o <<":", " ">>
                    \o interaction[i].value \o <<"\n">>])

\* ChatPrompt.create_interaction_string(*args, **kwargs)
create_interaction_string(p, args, kwargs) ==
    LET interaction ==
            IF Len(args) > 0 THEN create_interaction(p, args, kwargs) ELSE kwargs
    IN  join([i \in 1..Len(interaction) |->
                Get(p.headers, interaction[i].key) \o <<":", " ">>
                    \o interaction[i].value \o <<"\n">>])

\* ChatPrompt.create_conversation_string(conversation)
create_conversation_string(p, conversation) ==
    join([i \in 1..Len(conversation) |->
            create_interaction_string(p, <<>>, conversation[i])])

\* ChatPrompt.to_string()
to_string(p) ==
    strip(p.preamble \o <<"\n">> \o p.example_separator
          \o join_with(p.example_separator,
                       [i \in 1..Len(p.examples) |->
                           create_conversation_string(p, p.examples[i])]))

\* the attributes of a ChatPrompt that are not in the instance's own dict:
\* the properties (which have no setter) and the methods
PropertyNames == {"user_name", "bot_name"}
MethodNames ==
    {"create_interaction", "create_interaction_string",
     "create_conversation_string", "to_string", "update", "from_dict",
     "to_dict", "to_json_string"}

\* hasattr that sees the instance's own dict only
hasattr_own(p, key) == key \in DOMAIN p

\* hasattr(self, key); the instance's own dict is the domain of p
hasattr(p, key) == key \in DOMAIN p \cup PropertyNames \cup MethodNames

\* setattr(self, key, value) of a key that is not a property
setattr(p, key, value) ==
    [k \in DOMAIN p \cup {key} |-> IF k = key THEN value ELSE p[k]]

\* Prompt.update(config): config is iterated in its order; setting a
\* property raises AttributeError and keeps what was set before it
RECURSIVE update(_, _)
update(p, config) ==
    IF config = <<>> THEN [raised |-> FALSE, prompt |-> p]
    ELSE LET key == Head(config).key
             value == Head(config).value
         IN  IF ~hasattr(p, key) THEN update(p, Tail(config))
             ELSE IF key \in PropertyNames THEN [raised |-> TRUE, prompt |-> p]
             ELSE update(setattr(p, key, value), Tail(config))

\* a python value that is not a str, where a str is expected
NotStr == <<"int:123">>
isinstance_str(value) == value # NotStr

\* len(text) of a str: the number of its characters
RECURSIVE len(_)
len(text) == IF text = <<>> THEN 0 ELSE Len(Head(text)) + len(Tail(text))

\* text.startswith(prefix)
startswith(text, prefix) ==
    /\ Len(prefix) <= Len(text)
    /\ SubSeq(text, 1, Len(prefix)) = prefix

\* the validators: TRUE when the validator raises ValueError
validate_preamble(p) == len(p.preamble) < p.MIN_PREAMBLE_LENGTH

validate_example_separator(p) == ~isinstance_str(p.example_separator)

validate_headers(p) ==
    \E k \in 1..Len(p.REQUIRED_KEYS) : ~HasKey(p.headers, p.REQUIRED_KEYS[k])

\* ChatPrompt._validate_examples: the examples are conversations
validate_examples(p) ==
    \/ \E e \in 1..Len(p.examples) : \E i \in 1..Len(p.examples[e]) :
          \E k \in 1..Len(p.REQUIRED_KEYS) :
              ~HasKey(p.examples[e][i], p.REQUIRED_KEYS[k])
    \/ Len(p.examples) < p.MIN_NUM_EXAMPLES

\* ChatPrompt._validate_dialogue
validate_dialogue(p) ==
    \E e \in 1..Len(p.examples) :
        LET example == p.examples[e]
            user_name == Get(p.headers, "user")
            bot_name == Get(p.headers, "bot")
            user_prefixed ==
                \A i \in 1..Len(example) :
                    startswith(lstrip(Get(example[i], "user")), user_name)
            bot_prefixed ==
                \A i \in 1..Len(example) :
                    startswith(lstrip(Get(example[i], "bot")), bot_name)
        IN  \/ ~(\A i \in 1..Len(example) : Len(example[i]) = 2)
            \/ example # <<>> /\ user_prefixed /\ bot_prefixed

\* ChatPrompt.__post_init__ without the dialogue validator
post_init_no_dialogue(p) ==
    \/ validate_preamble(p)
    \/ validate_example_separator(p)
    \/ validate_headers(p)
    \/ validate_examples(p)

\* ChatPrompt.__post_init__: TRUE when it raises ValueError
post_init(p) ==
    IF validate_preamble(p) THEN TRUE
    ELSE IF validate_example_separator(p) THEN TRUE
    ELSE IF validate_headers(p) THEN TRUE
    ELSE IF validate_examples(p) THEN TRUE
    ELSE validate_dialogue(p)

\* the defaults of the constants of a ChatPrompt
ChatPromptDefaults ==
    [REQUIRED_KEYS |-> <<"user", "bot">>,
     MIN_PREAMBLE_LENGTH |-> MIN_PREAMBLE_LENGTH,
     MIN_NUM_EXAMPLES |-> MIN_NUM_EXAMPLES]

\* Prompt.from_dict(config) = ChatPrompt(**config)
from_dict(config) ==
    LET p == ConfigUpdate(ChatPromptDefaults, config)
    IN  [raised |-> post_init(p), prompt |-> p]

\* Prompt.to_dict()
to_dict(p) ==
    [preamble |-> p.preamble, example_separator |-> p.example_separator,
     headers |-> p.headers, examples |-> p.examples]

-----------------------------------------------------------------------------
(* Inputs of the exploration *)

UserLabel == <<"User">>
ShortBotLabel == <<"Bot">>
LongBotLabel == <<"Mock", " ", "Chat", " ", "Bot">>

Headers(bot_label) ==
    << [key |-> "user", value |-> UserLabel],
       [key |-> "bot", value |-> bot_label] >>

ShortPreamble == <<"Always", " ", "kind.">>
LongPreamble ==
    <<"Be", " ", "kind", " ", "and", " ", "brief", " ", "and", " ", "clear",
      " ", "and", " ", "calm", " ", "and", " ", "fair", " ", "always.">>

Examples ==
    << << << [key |-> "user", value |-> <<"hey">>],
             [key |-> "bot", value |-> <<"yo">>] >> >> >>

\* the templates a session is constructed with
ConstructorPrompts ==
    { [preamble |-> ShortPreamble, example_separator |-> <<"\n">>,
       headers |-> Headers(l), examples |-> Examples,
       REQUIRED_KEYS |-> ChatPromptDefaults.REQUIRED_KEYS,
       MIN_PREAMBLE_LENGTH |-> ChatPromptDefaults.MIN_PREAMBLE_LENGTH,
       MIN_NUM_EXAMPLES |-> ChatPromptDefaults.MIN_NUM_EXAMPLES] :
      l \in {ShortBotLabel, LongBotLabel} }

\* the chatbot_config and client_config a session is constructed with
ConstructorChatbotConfigs == {EmptyConfig}
ConstructorClientConfigs == {[max_tokens |-> 2034]}

\* the arguments of later configure_chatbot, configure_client and update calls
ChatbotConfigInputs ==
    {[max_context_examples |-> n] : n \in {0, 1, 10}}
ClientConfigInputs ==
    {[max_tokens |-> n] : n \in {1600, MAX_GENERATE_TOKENS}}
PromptUpdateInputs ==
    {<<[key |-> "headers", value |-> Headers(ShortBotLabel)]>>,
     <<[key |-> "headers", value |-> Headers(LongBotLabel)]>>,
     <<[key |-> "preamble", value |-> LongPreamble]>>}

\* the queries of reply()
Queries == {<<"hi">>, <<"how", " ", "are", " ", "you", " ", "today?">>}

\* what co.generate does: it returns generations[0].text or it raises
Generations ==
    {[raised |-> FALSE, text |-> <<" ", "ok", "\n">>, error |-> "none"],
     [raised |-> TRUE, text |-> <<>>, error |-> "CohereError"]}

-----------------------------------------------------------------------------
(* PromptChatbot *)

\* get_current_prompt: the trailing window of the chat
trimmed_chat_history_first(max_context_examples) ==
    IF max_context_examples > 0
    THEN PySuffix_first(chat_history, max_context_examples)
    ELSE <<>>
trimmed_chat_history_unguarded(max_context_examples) ==
    PySuffix(chat_history, max_context_examples)
trimmed_chat_history(max_context_examples) ==
    IF max_context_examples > 0
    THEN PySuffix(chat_history, max_context_examples)
    ELSE <<>>

\* get_current_prompt: the value used when max_context_examples is None
default_max_context_examples_curr == curr_max_context_examples
default_max_context_examples == chatbot_config.max_context_examples

\* PromptChatbot.get_current_prompt(query, max_context_examples=None)
get_current_prompt_between(query, max_context_examples_arg) ==
    LET max_context_examples ==
            IF max_context_examples_arg = NoneArg
            THEN default_max_context_examples
            ELSE max_context_examples_arg
        base_prompt == to_string(prompt) \o <<"\n">>
        window == trimmed_chat_history(max_context_examples)
        context_prompt_lines ==
            [i \in 1..Len(window) |->
                create_interaction_string(prompt, <<>>, window[i])]
        context_prompt ==
            join([i \in 1..Len(window) |->
                    IF i = 1 THEN context_prompt_lines[i]
                    ELSE prompt.example_separator \o context_prompt_lines[i]])
        query_prompt == create_interaction_string(prompt, <<query>>, <<>>)
    IN  strip(base_prompt \o context_prompt \o query_prompt)
get_current_prompt(query, max_context_examples_arg) ==
    LET max_context_examples ==
            IF max_context_examples_arg = NoneArg
            THEN default_max_context_examples
            ELSE max_context_examples_arg
        base_prompt == to_string(prompt) \o <<"\n">>
        window == trimmed_chat_history(max_context_examples)
        context_prompt_lines ==
            [i \in 1..Len(window) |->
                create_interaction_string(prompt, <<>>, window[i])]
        context_prompt == prompt.example_separator \o join(context_prompt_lines)
        query_prompt == create_interaction_string(prompt, <<query>>, <<>>)
    IN  strip(base_prompt \o context_prompt \o query_prompt)

\* a value a call returns or is given: its python type and its content
NoValue == [type |-> "NoneType", value |-> <<>>]

NoError == [start_prompt |-> 0, messages |-> 0, max_tokens |-> 0]

\* what a warning reports: the two numbers of its text (0 where it has none)
NoReport == [from |-> 0, to |-> 0]

\* _update_max_context_examples: the warning when the prompt fits at trimmed
shrink_warning_configured(trimmed) ==
    [kind |-> "changed",
     from |-> chatbot_config.max_context_examples, to |-> trimmed]
shrink_warning(trimmed) ==
    IF curr_max_context_examples = trimmed
    THEN [kind |-> "continues", from |-> 0, to |-> curr_max_context_examples]
    ELSE [kind |-> "changed", from |-> curr_max_context_examples, to |-> trimmed]

\* _update_max_context_examples: the loop over prompt_size_history[-n:]
RECURSIVE update_loop(_, _, _, _)
update_loop(sizes, i, prompt_size, trimmed_max_examples) ==
    IF i > Len(sizes)
    THEN [raised |-> TRUE, n |-> 0, warning |-> "none", reported |-> NoReport]
    ELSE LET size == prompt_size - sizes[i]
             trimmed == trimmed_max_examples - 1
         IN  IF size <= max_prompt_size
             THEN [raised |-> FALSE, n |-> trimmed,
                   warning |-> shrink_warning(trimmed).kind,
                   reported |-> [from |-> shrink_warning(trimmed).from,
                                 to |-> shrink_warning(trimmed).to]]
             ELSE update_loop(sizes, i + 1, size, trimmed)

\* PromptChatbot._update_max_context_examples(prompt_size, max_context_examples)
update_max_context_examples(prompt_size, max_context_examples) ==
    LET original_size == prompt_size
        trimmed_max_examples == Min(Len(chat_history), max_context_examples)
        found ==
            IF max_context_examples > 0
            THEN update_loop(PySuffix(prompt_size_history, max_context_examples),
                             1, prompt_size, trimmed_max_examples)
            ELSE [raised |-> TRUE, n |-> 0, warning |-> "none",
                  reported |-> NoReport]
    IN  [raised  |-> found.raised,
         n       |-> found.n,
         warning |-> found.warning,
         reported |-> found.reported,
         error   |-> IF found.raised
                     THEN [start_prompt |-> start_prompt_size,
                           messages |-> original_size - start_prompt_size,
                           max_tokens |-> client_config.max_tokens]
                     ELSE NoError]

\* reply: the response kept from the generated text
RECURSIVE strip_stop_sequences(_, _)
strip_stop_sequences(response, stop_sequences) ==
    IF stop_sequences = <<>> THEN response
    ELSE strip_stop_sequences(
            IF endswith(response, Head(stop_sequences))
            THEN PyDropLast(response, Len(Head(stop_sequences)))
            ELSE response,
            Tail(stop_sequences))

response_of(text) == lstrip(strip_stop_sequences(text, client_config.stop_sequences))

\* reply: the prompt for the turn, up to the call of co.generate
reply_prompt(query) ==
    LET current_prompt == get_current_prompt(query, NoneArg)
        current_prompt_size == tokenize(current_prompt)
    IN  IF current_prompt_size > max_prompt_size
        THEN LET u == update_max_context_examples(
                          current_prompt_size, chatbot_config.max_context_examples)
             IN  [raised  |-> u.raised,
                  error   |-> u.error,
                  shrunk  |-> TRUE,
                  first   |-> current_prompt,
                  n       |-> u.n,
                  curr    |-> IF u.raised THEN curr_max_context_examples ELSE u.n,
                  warning |-> u.warning,
                  reported |-> u.reported,
                  prompt  |-> IF u.raised THEN <<>>
                              ELSE get_current_prompt(query, u.n)]
        ELSE [raised  |-> FALSE,
              error   |-> NoError,
              shrunk  |-> FALSE,
              first   |-> current_prompt,
              n       |-> chatbot_config.max_context_examples,
              curr    |-> curr_max_context_examples,
              warning |-> IF curr_max_context_examples
                                # chatbot_config.max_context_examples
                          THEN "returned" ELSE "none",
              reported |-> IF curr_max_context_examples
                                # chatbot_config.max_context_examples
                           THEN [from |-> 0,
                                 to |-> chatbot_config.max_context_examples]
                           ELSE NoReport,
              prompt  |-> current_prompt]

\* the state a call starts from, as far as the properties look back at it
Pre ==
    [chat_history |-> chat_history,
     prompt_size_history |-> prompt_size_history,
     prompt_history |-> prompt_history,
     chatbot_config |-> chatbot_config,
     client_config |-> client_config,
     curr_max_context_examples |-> curr_max_context_examples,
     after_shrunk_turn |->
        last.op = "reply" /\ last.status = "ok" /\ last.shrunk,
     latest_reply |-> last.latest_reply]

NoPre ==
    [chat_history |-> <<>>, prompt_size_history |-> <<>>, prompt_history |-> <<>>,
     chatbot_config |-> EmptyConfig, client_config |-> EmptyConfig,
     curr_max_context_examples |-> 0,
     after_shrunk_turn |-> FALSE,
     latest_reply |-> "none"]

Last(op, status, warning) ==
    [op |-> op, status |-> status, warning |-> warning, query |-> <<>>,
     first |-> <<>>, prompt |-> <<>>, generate_calls |-> 0, shrunk |-> FALSE,
     n |-> 0, response |-> <<>>, error |-> NoError, pre |-> NoPre,
     text |-> <<>>, returned |-> NoValue, arg |-> NoValue,
     reported |-> NoReport, latest_reply |-> "none"]

\* the reply that last reached co.generate: did it shrink its window
latest_reply(r) == IF r.shrunk THEN "shrunk" ELSE "fit"

\* reply: _update_max_context_examples raises, and reply propagates it
ReplyTooLarge_partial(query, r) ==
    /\ chat_history' = Append(chat_history, create_interaction(prompt, <<query>>, <<>>))
    /\ last' = [Last("reply", "too_large", "none") EXCEPT
                    !.query = query, !.first = r.first, !.shrunk = TRUE,
                    !.error = r.error, !.pre = Pre,
                    !.latest_reply = last.latest_reply]
    /\ UNCHANGED <<prompt, chatbot_config, client_config,
                   prompt_size_history, prompt_history, curr_max_context_examples,
                   max_prompt_size, start_prompt_size>>
ReplyTooLarge(query, r) ==
    /\ last' = [Last("reply", "too_large", "none") EXCEPT
                    !.query = query, !.first = r.first, !.shrunk = TRUE,
                    !.error = r.error, !.pre = Pre,
                    !.latest_reply = last.latest_reply]
    /\ UNCHANGED <<prompt, chatbot_config, client_config, chat_history,
                   prompt_size_history, prompt_history, curr_max_context_examples,
                   max_prompt_size, start_prompt_size>>

\* reply: co.generate raises, and reply propagates it
ReplyGenerateFails_retry(query, r, error) ==
    /\ curr_max_context_examples' = r.curr
    /\ last' = [Last("reply", "generate_failed", r.warning) EXCEPT
                    !.query = query, !.first = r.first, !.prompt = r.prompt,
                    !.generate_calls = 2, !.shrunk = r.shrunk, !.n = r.n,
                    !.pre = Pre, !.reported = r.reported,
                    !.latest_reply = latest_reply(r),
                    !.returned = [type |-> error, value |-> <<>>]]
    /\ UNCHANGED <<prompt, chatbot_config, client_config, chat_history,
                   prompt_size_history, prompt_history,
                   max_prompt_size, start_prompt_size>>
ReplyGenerateFails(query, r, error) ==
    /\ curr_max_context_examples' = r.curr
    /\ last' = [Last("reply", "generate_failed", r.warning) EXCEPT
                    !.query = query, !.first = r.first, !.prompt = r.prompt,
                    !.generate_calls = 1, !.shrunk = r.shrunk, !.n = r.n,
                    !.pre = Pre, !.reported = r.reported,
                    !.latest_reply = latest_reply(r),
                    !.returned = [type |-> error, value |-> <<>>]]
    /\ UNCHANGED <<prompt, chatbot_config, client_config, chat_history,
                   prompt_size_history, prompt_history,
                   max_prompt_size, start_prompt_size>>

\* reply: self.chat_history.append(...)
remember_front(history, interaction) == <<interaction>> \o history
remember(history, interaction) == Append(history, interaction)

\* reply: the turn is generated and remembered
ReplyDone_first_prompt(query, r, text) ==
    LET response == response_of(text)
    IN  /\ curr_max_context_examples' = r.curr
        /\ chat_history' =
              remember(chat_history,
                       create_interaction(prompt, <<query, response>>, <<>>))
        /\ prompt_size_history' =
              Append(prompt_size_history,
                     tokenize(create_interaction_string(
                                  prompt, <<query, response>>, <<>>)))
        /\ prompt_history' = Append(prompt_history, r.first)
        /\ last' = [Last("reply", "ok", r.warning) EXCEPT
                        !.query = query, !.first = r.first, !.prompt = r.prompt,
                        !.generate_calls = 1, !.shrunk = r.shrunk, !.n = r.n,
                        !.response = response, !.pre = Pre, !.text = text,
                        !.reported = r.reported,
                        !.latest_reply = latest_reply(r),
                        !.returned = [type |-> "str", value |-> response]]
        /\ UNCHANGED <<prompt, chatbot_config, client_config,
                       max_prompt_size, start_prompt_size>>
ReplyDone(query, r, text) ==
    LET response == response_of(text)
    IN  /\ curr_max_context_examples' = r.curr
        /\ chat_history' =
              remember(chat_history,
                       create_interaction(prompt, <<query, response>>, <<>>))
        /\ prompt_size_history' =
              Append(prompt_size_history,
                     tokenize(create_interaction_string(
                                  prompt, <<query, response>>, <<>>)))
        /\ prompt_history' = Append(prompt_history, r.prompt)
        /\ last' = [Last("reply", "ok", r.warning) EXCEPT
                        !.query = query, !.first = r.first, !.prompt = r.prompt,
                        !.generate_calls = 1, !.shrunk = r.shrunk, !.n = r.n,
                        !.response = response, !.pre = Pre, !.text = text,
                        !.reported = r.reported,
                        !.latest_reply = latest_reply(r),
                        !.returned = [type |-> "str", value |-> response]]
        /\ UNCHANGED <<prompt, chatbot_config, client_config,
                       max_prompt_size, start_prompt_size>>

\* PromptChatbot.reply(query)
Reply(query, generation) ==
    /\ Len(chat_history) < MaxHistory
    /\ LET r == reply_prompt(query)
       IN  IF r.raised THEN ReplyTooLarge(query, r)
           ELSE IF generation.raised
                THEN ReplyGenerateFails(query, r, generation.error)
           ELSE ReplyDone(query, r, generation.text)

DefaultChatbotConfig == [max_context_examples |-> 10, avatar |-> ":robot:"]

\* temperature and the penalties are in hundredths (0.75 is 75)
DefaultClientConfig ==
    [model |-> "xlarge", max_tokens |-> 100, temperature |-> 75,
     frequency_penalty |-> 0, presence_penalty |-> 0,
     stop_sequences |-> << <<"\n">> >>]

\* configure_client: the checks on max_tokens after the update
max_tokens_check(config) ==
    IF config.max_tokens >= MAX_GENERATE_TOKENS THEN "raise"
    ELSE IF config.max_tokens * 100 > MAX_GENERATE_TOKENS * 75 THEN "warn"
    ELSE "pass"

\* PromptChatbot.configure_chatbot(chatbot_config)
ConfigureChatbot(config) ==
    /\ chatbot_config' = ConfigUpdate(chatbot_config, config)
    /\ last' = [Last("configure_chatbot", "ok", "none") EXCEPT
                    !.arg = [type |-> "dict", value |-> config],
                    !.latest_reply = last.latest_reply]
    /\ UNCHANGED <<prompt, client_config, chat_history, prompt_size_history,
                   prompt_history, curr_max_context_examples, max_prompt_size,
                   start_prompt_size>>

\* PromptChatbot.configure_client(client_config)
ConfigureClient(config) ==
    LET updated == ConfigUpdate(client_config, config)
        check == max_tokens_check(updated)
    IN  /\ client_config' = updated
        /\ last' = [Last("configure_client",
                         IF check = "raise" THEN "rejected" ELSE "ok",
                         IF check = "warn" THEN "close" ELSE "none") EXCEPT
                        !.arg = [type |-> "dict", value |-> config],
                        !.latest_reply = last.latest_reply]
        /\ UNCHANGED <<prompt, chatbot_config, chat_history, prompt_size_history,
                       prompt_history, curr_max_context_examples, max_prompt_size,
                       start_prompt_size>>

\* the prompt form of the demo: bot.prompt.update(current_config)
UpdatePrompt(config) ==
    /\ prompt' = update(prompt, config).prompt
    /\ last' = [Last("update",
                     IF update(prompt, config).raised THEN "raised" ELSE "ok",
                     "none") EXCEPT
                    !.latest_reply = last.latest_reply]
    /\ UNCHANGED <<chatbot_config, client_config, chat_history,
                   prompt_size_history, prompt_history, curr_max_context_examples,
                   max_prompt_size, start_prompt_size>>

\* PromptChatbot.__init__(prompt=p, chatbot_config=cb, client_config=cl)
\* when it does not raise: the session it leaves
Constructed(p, cb, cl) ==
    LET client == ConfigUpdate(DefaultClientConfig, cl)
        chatbot == ConfigUpdate(DefaultChatbotConfig, cb)
        size == tokenize(to_string(p))
    IN  /\ max_tokens_check(client) # "raise"
        /\ size <= MAX_GENERATE_TOKENS - client.max_tokens
        /\ prompt = p
        /\ chatbot_config = chatbot
        /\ client_config = client
        /\ chat_history = <<>>
        /\ prompt_size_history = <<>>
        /\ prompt_history = <<to_string(p)>>
        /\ curr_max_context_examples = chatbot.max_context_examples
        /\ max_prompt_size = MAX_GENERATE_TOKENS - client.max_tokens
        /\ start_prompt_size = size

\* the callers of reply() on the session
Callers == {"first", "second"}

\* reply_prompt of a call that has not begun
NoReplyPrompt ==
    [raised |-> FALSE, error |-> NoError, shrunk |-> FALSE, first |-> <<>>,
     n |-> 0, curr |-> 0, warning |-> "none", reported |-> NoReport,
     prompt |-> <<>>]

\* a caller that is not inside reply()
Idle == [pc |-> "idle", query |-> <<>>, r |-> NoReplyPrompt, response |-> <<>>]
NoCalls == [c \in Callers |-> Idle]

\* the attributes of a session
Self ==
    [prompt |-> prompt, chatbot_config |-> chatbot_config,
     client_config |-> client_config, chat_history |-> chat_history,
     prompt_size_history |-> prompt_size_history,
     prompt_history |-> prompt_history,
     curr_max_context_examples |-> curr_max_context_examples,
     max_prompt_size |-> max_prompt_size,
     start_prompt_size |-> start_prompt_size]

NoOther ==
    [prompt |-> EmptyConfig, chatbot_config |-> EmptyConfig,
     client_config |-> EmptyConfig, chat_history |-> <<>>,
     prompt_size_history |-> <<>>, prompt_history |-> <<>>,
     curr_max_context_examples |-> 0, max_prompt_size |-> 0,
     start_prompt_size |-> 0]

\* one session, called by one caller at a time, each call run to its end
Alone ==
    /\ calls = NoCalls
    /\ other = NoOther
    /\ aliased = {}
Apart == UNCHANGED <<calls, other, aliased>>

\* the sessions whose construction does not raise
Init ==
    \E p \in ConstructorPrompts,
       cb \in ConstructorChatbotConfigs,
       cl \in ConstructorClientConfigs :
        /\ Alone
        /\ Constructed(p, cb, cl)
        /\ last = [Last("init", "ok", "none") EXCEPT
                      !.arg = [type |-> "configs",
                               value |-> [chatbot_config |-> cb,
                                          client_config |-> cl]]]

Next ==
    \/ Apart /\ \E query \in Queries, generation \in Generations :
                    Reply(query, generation)
    \/ Apart /\ \E config \in ChatbotConfigInputs : ConfigureChatbot(config)
    \/ Apart /\ \E config \in ClientConfigInputs : ConfigureClient(config)
    \/ Apart /\ \E config \in PromptUpdateInputs : UpdatePrompt(config)

Spec == Init /\ [][Next]_vars

-----------------------------------------------------------------------------
(* The configs of a session: construction and the configure calls with     *)
(* empty, partial and full configs                                         *)

ChatbotConfigChoices ==
    {EmptyConfig,
     [avatar |-> ":cat:"],
     [max_context_examples |-> 5, avatar |-> ":dog:"]}

ClientConfigChoices ==
    {EmptyConfig,
     [temperature |-> 50],
     [max_tokens |-> 200, model |-> "medium"],
     [max_tokens |-> MAX_GENERATE_TOKENS],
     [model |-> "small", max_tokens |-> 50, temperature |-> 10,
      frequency_penalty |-> 5, presence_penalty |-> 5,
      stop_sequences |-> << <<"#">> >>]}

InitConfig ==
    \E p \in ConstructorPrompts,
       cb \in ChatbotConfigChoices,
       cl \in ClientConfigChoices :
        /\ Alone
        /\ Constructed(p, cb, cl)
        /\ last = [Last("init", "ok", "none") EXCEPT
                      !.arg = [type |-> "configs",
                               value |-> [chatbot_config |-> cb,
                                          client_config |-> cl]]]

NextConfig ==
    \/ Apart /\ \E config \in ChatbotConfigChoices : ConfigureChatbot(config)
    \/ Apart /\ \E config \in ClientConfigChoices : ConfigureClient(config)

SpecConfig == InitConfig /\ [][NextConfig]_vars

-----------------------------------------------------------------------------
(* The response kept from a generated text, on its own *)

\* generated texts and stop sequences are explored up to these lengths
MaxTextLen == 3
MaxStopSequences == 2

SeqsUpTo(S, n) == UNION {[1..k -> S] : k \in 0..n}

GeneratedTexts == SeqsUpTo({"ok", " ", "\n", "#"}, MaxTextLen)

StopSequenceInputs ==
    SeqsUpTo({<<"\n">>, <<"#">>, <<"\n", "#">>, <<>>}, MaxStopSequences)

\* the variables of a session that the operation under study does not read
NoSession ==
    /\ Alone
    /\ chat_history = <<>>
    /\ prompt_size_history = <<>>
    /\ prompt_history = <<>>
    /\ curr_max_context_examples = 0
    /\ max_prompt_size = 0
    /\ start_prompt_size = 0

InitResponse ==
    \E stop_sequences \in StopSequenceInputs :
        /\ client_config =
              ConfigUpdate(DefaultClientConfig, [stop_sequences |-> stop_sequences])
        /\ chatbot_config = DefaultChatbotConfig
        /\ prompt \in ConstructorPrompts
        /\ prompt.headers = Headers(ShortBotLabel)
        /\ NoSession
        /\ last = Last("init", "ok", "none")

\* reply: response = generations[0].text, stop sequences removed, lstrip
Respond(text) ==
    /\ last' = [Last("response", "ok", "none") EXCEPT
                    !.text = text, !.response = response_of(text)]
    /\ UNCHANGED <<prompt, chatbot_config, client_config, chat_history,
                   prompt_size_history, prompt_history, curr_max_context_examples,
                   max_prompt_size, start_prompt_size>>

NextResponse == Apart /\ \E text \in GeneratedTexts : Respond(text)

SpecResponse == InitResponse /\ [][NextResponse]_vars

-----------------------------------------------------------------------------
(* The template on its own: one ChatPrompt object and the calls on it *)

TooShortPreamble == <<"Hi">>
UserOnlyHeaders == <<[key |-> "user", value |-> UserLabel]>>

\* a conversation whose interaction has no "bot"
MissingBotExamples == << << << [key |-> "user", value |-> <<"hey">>] >> >> >>
\* a conversation whose interaction has a third speaker
ThreeSpeakerExamples ==
    << << << [key |-> "user", value |-> <<"hey">>],
             [key |-> "bot", value |-> <<"yo">>],
             [key |-> "guest", value |-> <<"hm">>] >> >> >>
\* a conversation whose turns all begin with the name of their speaker
PrefixedExamples ==
    << << << [key |-> "user", value |-> <<"User", ":", " ", "hey">>],
             [key |-> "bot", value |-> <<"Bot", ":", " ", "yo">>] >> >> >>
\* one conversation without interactions
EmptyConversationExamples == << <<>> >>

\* the configs given to from_dict
FromDictInputs ==
    { ConfigUpdate([preamble |-> pre, example_separator |-> sep,
                    headers |-> h, examples |-> ex], c) :
        pre \in {ShortPreamble, TooShortPreamble},
        sep \in {<<"\n">>, NotStr},
        h \in {Headers(ShortBotLabel), UserOnlyHeaders},
        ex \in {<<>>, Examples, MissingBotExamples, ThreeSpeakerExamples,
                PrefixedExamples, EmptyConversationExamples},
        c \in {EmptyConfig, [MIN_NUM_EXAMPLES |-> 1]} }

\* the configs given to update, in the order of their keys
UpdateInputs ==
    { <<[key |-> "preamble", value |-> TooShortPreamble]>>,
      <<[key |-> "examples", value |-> PrefixedExamples]>>,
      <<[key |-> "MIN_PREAMBLE_LENGTH", value |-> 1]>>,
      <<[key |-> "temperature", value |-> <<"hot">>]>>,
      <<[key |-> "example_separator", value |-> <<"--", "\n">>],
        [key |-> "user_name", value |-> <<"Pat">>]>>,
      <<[key |-> "to_string", value |-> <<"text">>]>> }

\* the arguments of create_interaction and create_interaction_string
ArgsInputs ==
    {<<>>, <<<<"a">>>>, <<<<"a">>, <<"b">>>>, <<<<"a">>, <<"b">>, <<"c">>>>}
KwargsInputs ==
    {<<>>,
     <<[key |-> "bot", value |-> <<"x">>]>>,
     <<[key |-> "bot", value |-> <<"x">>], [key |-> "user", value |-> <<"y">>]>>,
     <<[key |-> "mood", value |-> <<"z">>]>>}

\* no ChatPrompt object yet
NoPrompt == EmptyConfig
Live == DOMAIN prompt # {}

\* a method can be called unless an instance attribute hides it
callable(p, name) == name \notin DOMAIN p

Unchanged_session ==
    UNCHANGED <<chatbot_config, client_config, chat_history, prompt_size_history,
                prompt_history, curr_max_context_examples, max_prompt_size,
                start_prompt_size>>

InitPrompt ==
    /\ prompt = NoPrompt
    /\ chatbot_config = DefaultChatbotConfig
    /\ client_config = DefaultClientConfig
    /\ NoSession
    /\ last = Last("init", "ok", "none")

\* prompt = ChatPrompt.from_dict(config)
FromDict(config) ==
    /\ ~Live
    /\ LET r == from_dict(config)
       IN  /\ prompt' = IF r.raised THEN prompt ELSE r.prompt
           /\ last' = [Last("from_dict", IF r.raised THEN "raised" ELSE "ok", "none")
                          EXCEPT !.arg = [type |-> "dict", value |-> config],
                                 !.returned =
                                     [type |-> IF r.raised THEN "ValueError"
                                               ELSE "ChatPrompt",
                                      value |-> <<>>]]
    /\ Unchanged_session

\* prompt.update(config)
Update(config) ==
    /\ Live
    /\ LET r == update(prompt, config)
       IN  /\ prompt' = r.prompt
           /\ last' = [Last("update", IF r.raised THEN "raised" ELSE "ok", "none")
                          EXCEPT !.arg = [type |-> "dict", value |-> config],
                                 !.returned =
                                     [type |-> IF r.raised THEN "AttributeError"
                                               ELSE "NoneType",
                                      value |-> <<>>]]
    /\ Unchanged_session

\* prompt.to_string()
PromptToString ==
    /\ Live
    /\ last' = IF callable(prompt, "to_string")
               THEN [Last("to_string", "ok", "none") EXCEPT
                        !.text = to_string(prompt),
                        !.returned = [type |-> "str", value |-> to_string(prompt)]]
               ELSE [Last("to_string", "raised", "none") EXCEPT
                        !.returned = [type |-> "TypeError", value |-> <<>>]]
    /\ UNCHANGED prompt
    /\ Unchanged_session

\* prompt.create_interaction(*args, **kwargs)
CreateInteraction(args, kwargs) ==
    /\ Live
    /\ last' = [Last("create_interaction", "ok", "none") EXCEPT
                    !.arg = [type |-> "call",
                             value |-> [args |-> args, kwargs |-> kwargs]],
                    !.returned = [type |-> "dict",
                                  value |-> create_interaction(prompt, args, kwargs)]]
    /\ UNCHANGED prompt
    /\ Unchanged_session

\* prompt.create_interaction_string(*args, **kwargs); headers[key] raises
\* KeyError for a key of the interaction that headers does not have
CreateInteractionString(args, kwargs) ==
    /\ Live
    /\ LET interaction ==
               IF Len(args) > 0 THEN create_interaction(prompt, args, kwargs)
               ELSE kwargs
           key_error == \E i \in 1..Len(interaction) :
                           ~HasKey(prompt.headers, interaction[i].key)
       IN  last' =
             IF key_error
             THEN [Last("create_interaction_string", "raised", "none") EXCEPT
                      !.arg = [type |-> "call",
                               value |-> [args |-> args, kwargs |-> kwargs]],
                      !.returned = [type |-> "KeyError", value |-> <<>>]]
             ELSE [Last("create_interaction_string", "ok", "none") EXCEPT
                      !.arg = [type |-> "call",
                               value |-> [args |-> args, kwargs |-> kwargs]],
                      !.text = create_interaction_string(prompt, args, kwargs),
                      !.returned =
                          [type |-> "str",
                           value |-> create_interaction_string(prompt, args, kwargs)]]
    /\ UNCHANGED prompt
    /\ Unchanged_session

\* ChatPrompt.from_dict(prompt.to_dict())
RoundTrip ==
    /\ Live
    /\ LET r == from_dict(to_dict(prompt))
       IN  last' = [Last("round_trip", IF r.raised THEN "raised" ELSE "ok", "none")
                      EXCEPT !.returned =
                                 [type |-> IF r.raised THEN "ValueError"
                                           ELSE "ChatPrompt",
                                  value |-> IF r.raised THEN <<>> ELSE r.prompt]]
    /\ UNCHANGED prompt
    /\ Unchanged_session

NextPrompt ==
    \/ Apart /\ \E config \in FromDictInputs : FromDict(config)
    \/ Apart /\ \E config \in UpdateInputs : Update(config)
    \/ Apart /\ PromptToString
    \/ Apart /\ \E args \in ArgsInputs, kwargs \in KwargsInputs :
                    CreateInteraction(args, kwargs)
    \/ Apart /\ \E args \in ArgsInputs, kwargs \in KwargsInputs :
                    CreateInteractionString(args, kwargs)
    \/ Apart /\ RoundTrip

SpecPrompt == InitPrompt /\ [][NextPrompt]_vars

-----------------------------------------------------------------------------
(* Loading a persona: a JSON document is a value tagged with its JSON type *)

PERSONA_JSON_SCHEMA ==
    [type |-> "object",
     properties |->
        [chatbot_config |->
            [type |-> "object",
             properties |-> [max_context_examples |-> [type |-> "integer"],
                             avatar |-> [type |-> "string"]]],
         client_config |->
            [type |-> "object",
             properties |-> [model |-> [type |-> "string"],
                             max_tokens |-> [type |-> "integer"],
                             temperature |-> [type |-> "number"],
                             frequency_penalty |-> [type |-> "number"],
                             presence_penalty |-> [type |-> "number"],
                             stop_sequences |-> [type |-> "array"]]],
         prompt_config |-> [type |-> "object"]]]

\* jsonschema: the "type" keyword
is_type(instance, type) ==
    IF type = "number" THEN instance.type \in {"integer", "number"}
    ELSE instance.type = type

\* jsonschema.validate(instance, schema) passes: "type", and "properties"
\* for the keys that an object instance has
RECURSIVE is_valid(_, _)
is_valid(instance, schema) ==
    /\ is_type(instance, schema.type)
    /\ ("properties" \in DOMAIN schema /\ instance.type = "object") =>
          \A k \in DOMAIN schema.properties \cap DOMAIN instance.value :
              is_valid(instance.value[k], schema.properties[k])

\* the python dict of a JSON object whose values are not nested
py(object) == [k \in DOMAIN object.value |-> object.value[k].value]

\* PromptChatbot.from_persona(persona_name, client), from the loaded document
from_persona(persona) ==
    LET failed(error) ==
            [error |-> error, prompt |-> NoPrompt,
             chatbot_config |-> EmptyConfig, client_config |-> EmptyConfig]
        doc == persona.value
    IN  IF ~is_valid(persona, PERSONA_JSON_SCHEMA) THEN failed("ValidationError")
        ELSE IF "chat_prompt_config" \notin DOMAIN doc THEN failed("KeyError")
        ELSE IF doc.chat_prompt_config.type # "object" THEN failed("TypeError")
        ELSE IF from_dict(doc.chat_prompt_config.value).raised
             THEN failed("ValueError")
        ELSE IF "chatbot_config" \notin DOMAIN doc THEN failed("KeyError")
        ELSE IF "client_config" \notin DOMAIN doc THEN failed("KeyError")
        ELSE LET p == from_dict(doc.chat_prompt_config.value).prompt
                 cb == py(doc.chatbot_config)
                 cl == py(doc.client_config)
                 client == ConfigUpdate(DefaultClientConfig, cl)
             IN  IF max_tokens_check(client) = "raise" THEN failed("ValueError")
                 ELSE IF tokenize(to_string(p))
                            > MAX_GENERATE_TOKENS - client.max_tokens
                      THEN failed("ValueError")
                 ELSE [error |-> "none", prompt |-> p,
                       chatbot_config |-> cb, client_config |-> cl]

\* a key that the document does not have
Absent == [type |-> "absent", value |-> <<>>]
JsonObject(fields) == [type |-> "object", value |-> fields]
JsonInteger(n) == [type |-> "integer", value |-> n]
JsonString(text) == [type |-> "string", value |-> text]

ValidPromptConfig ==
    [preamble |-> ShortPreamble, example_separator |-> <<"\n">>,
     headers |-> Headers(ShortBotLabel), examples |-> Examples]

\* the variants of each part of the documents that are loaded, by name
PersonaChatbotConfigs == {"absent", "empty", "full", "wrong type", "not an object"}
PersonaChatbotConfig(variant) ==
    CASE variant = "absent" -> Absent
      [] variant = "empty" -> JsonObject(EmptyConfig)
      [] variant = "full" ->
            JsonObject([max_context_examples |-> JsonInteger(5),
                        avatar |-> JsonString(":cat:")])
      [] variant = "wrong type" ->
            JsonObject([max_context_examples |-> JsonString("five")])
      [] variant = "not an object" -> JsonString("none")

PersonaClientConfigs ==
    {"absent", "empty", "partial", "wrong type", "integer as number",
     "not an array", "over the cap"}
PersonaClientConfig(variant) ==
    CASE variant = "absent" -> Absent
      [] variant = "empty" -> JsonObject(EmptyConfig)
      [] variant = "partial" -> JsonObject([max_tokens |-> JsonInteger(200)])
      [] variant = "wrong type" -> JsonObject([max_tokens |-> JsonString("many")])
      [] variant = "integer as number" ->
            JsonObject([temperature |-> JsonInteger(1)])
      [] variant = "not an array" ->
            JsonObject([stop_sequences |-> JsonString("#")])
      [] variant = "over the cap" ->
            JsonObject([max_tokens |-> JsonInteger(MAX_GENERATE_TOKENS)])

PersonaChatPromptConfigs == {"absent", "valid", "short preamble", "not an object"}
PersonaChatPromptConfig(variant) ==
    CASE variant = "absent" -> Absent
      [] variant = "valid" -> JsonObject(ValidPromptConfig)
      [] variant = "short preamble" ->
            JsonObject([ValidPromptConfig EXCEPT !.preamble = TooShortPreamble])
      [] variant = "not an object" -> JsonString("none")

PersonaPromptConfigs == {"absent", "not an object"}
PersonaPromptConfig(variant) ==
    CASE variant = "absent" -> Absent
      [] variant = "not an object" -> JsonString("none")

\* the document with the keys that are not Absent
Persona(cp, cb, cl, pc) ==
    LET all == [chat_prompt_config |-> PersonaChatPromptConfig(cp),
                chatbot_config |-> PersonaChatbotConfig(cb),
                client_config |-> PersonaClientConfig(cl),
                prompt_config |-> PersonaPromptConfig(pc)]
    IN  JsonObject([k \in {key \in DOMAIN all : all[key].type # "absent"} |-> all[k]])

\* the state that from_persona leaves: a session, or none when it raised
InitPersona ==
    \E cp \in PersonaChatPromptConfigs, cb \in PersonaChatbotConfigs,
       cl \in PersonaClientConfigs, pc \in PersonaPromptConfigs :
        LET persona == Persona(cp, cb, cl, pc)
            r == from_persona(persona)
        IN  IF r.error = "none"
            THEN /\ Alone
                 /\ Constructed(r.prompt, r.chatbot_config, r.client_config)
                 /\ last = [Last("from_persona", "ok", "none") EXCEPT
                               !.arg = persona,
                               !.returned = [type |-> "PromptChatbot",
                                             value |-> <<>>]]
            ELSE /\ prompt = NoPrompt
                 /\ chatbot_config = EmptyConfig
                 /\ client_config = EmptyConfig
                 /\ NoSession
                 /\ last = [Last("from_persona", "raised", "none") EXCEPT
                               !.arg = persona,
                               !.returned = [type |-> r.error, value |-> <<>>]]

NextPersona ==
    \/ Apart /\ Live /\ \E config \in ChatbotConfigInputs : ConfigureChatbot(config)
    \/ Apart /\ Live /\ \E config \in ClientConfigInputs : ConfigureClient(config)

SpecPersona == InitPersona /\ [][NextPersona]_vars

-----------------------------------------------------------------------------
(* reply() statement by statement, as the callers of a session run it      *)

\* the demo's callback and the tests call reply() on their one thread and
\* wait for its return: a call begins when no call of the session is running
may_call_threads(c) == calls[c].pc = "idle"
may_call(c) == \A d \in Callers : calls[d].pc = "idle"

\* reply: the prompt is built, and shrunk if it is over budget
ReplyBegins(c, query) ==
    /\ may_call(c)
    /\ Len(chat_history) < MaxHistory
    /\ LET r == reply_prompt(query)
       IN  IF r.raised
           THEN ReplyTooLarge(query, r) /\ UNCHANGED calls
           ELSE /\ calls' = [calls EXCEPT ![c] =
                                [pc |-> "generate", query |-> query, r |-> r,
                                 response |-> <<>>]]
                /\ curr_max_context_examples' = r.curr
                /\ last' = [Last("reply", "replying", r.warning) EXCEPT
                                !.query = query, !.first = r.first,
                                !.prompt = r.prompt, !.shrunk = r.shrunk,
                                !.n = r.n, !.pre = Pre,
                                !.reported = r.reported,
                                !.latest_reply = latest_reply(r)]
                /\ UNCHANGED <<prompt, chatbot_config, client_config,
                               chat_history, prompt_size_history, prompt_history,
                               max_prompt_size, start_prompt_size>>
    /\ UNCHANGED <<other, aliased>>

\* reply: co.generate returns or raises, and the response is cut
ReplyGenerates(c, generation) ==
    /\ calls[c].pc = "generate"
    /\ IF generation.raised
       THEN /\ calls' = [calls EXCEPT ![c] = Idle]
            /\ last' = [last EXCEPT
                            !.status = "generate_failed", !.generate_calls = 1,
                            !.query = calls[c].query,
                            !.returned = [type |-> generation.error,
                                          value |-> <<>>]]
       ELSE /\ calls' = [calls EXCEPT
                            ![c].pc = "chat_history",
                            ![c].response = response_of(generation.text)]
            /\ last' = [last EXCEPT !.generate_calls = 1]
    /\ UNCHANGED <<prompt, chatbot_config, client_config, chat_history,
                   prompt_size_history, prompt_history,
                   curr_max_context_examples, max_prompt_size,
                   start_prompt_size, other, aliased>>

\* reply: self.chat_history.append(...)
ReplyAppendsTurn(c) ==
    /\ calls[c].pc = "chat_history"
    /\ chat_history' =
          remember(chat_history,
                   create_interaction(prompt,
                                      <<calls[c].query, calls[c].response>>, <<>>))
    /\ calls' = [calls EXCEPT ![c].pc = "prompt_size_history"]
    /\ UNCHANGED <<prompt, chatbot_config, client_config, prompt_size_history,
                   prompt_history, curr_max_context_examples, max_prompt_size,
                   start_prompt_size, last, other, aliased>>

\* reply: self.prompt_size_history.append(...)
ReplyAppendsSize(c) ==
    /\ calls[c].pc = "prompt_size_history"
    /\ prompt_size_history' =
          Append(prompt_size_history,
                 tokenize(create_interaction_string(
                              prompt, <<calls[c].query, calls[c].response>>, <<>>)))
    /\ calls' = [calls EXCEPT ![c].pc = "prompt_history"]
    /\ UNCHANGED <<prompt, chatbot_config, client_config, chat_history,
                   prompt_history, curr_max_context_examples, max_prompt_size,
                   start_prompt_size, last, other, aliased>>

\* reply: self.prompt_history.append(current_prompt); return response
ReplyReturns(c) ==
    /\ calls[c].pc = "prompt_history"
    /\ prompt_history' = Append(prompt_history, calls[c].r.prompt)
    /\ calls' = [calls EXCEPT ![c] = Idle]
    /\ last' = [last EXCEPT
                    !.status = "ok", !.query = calls[c].query,
                    !.response = calls[c].response,
                    !.returned = [type |-> "str", value |-> calls[c].response]]
    /\ UNCHANGED <<prompt, chatbot_config, client_config, chat_history,
                   prompt_size_history, curr_max_context_examples,
                   max_prompt_size, start_prompt_size, other, aliased>>

NextReplying ==
    \/ \E c \in Callers, query \in Queries : ReplyBegins(c, query)
    \/ \E c \in Callers, generation \in Generations : ReplyGenerates(c, generation)
    \/ \E c \in Callers : ReplyAppendsTurn(c)
    \/ \E c \in Callers : ReplyAppendsSize(c)
    \/ \E c \in Callers : ReplyReturns(c)

SpecReplying == Init /\ [][NextReplying]_vars

-----------------------------------------------------------------------------
(* Two sessions side by side, and the objects they hold                    *)

\* how the two sessions are built: both without configs, both with the same
\* dicts of the caller, both from the same persona
Constructions == {"omitted", "same_dicts", "same_persona"}

\* the chatbot_config and client_config arguments of the two constructions
construction_configs(construction) ==
    IF construction = "omitted"
    THEN [chatbot_config |-> EmptyConfig, client_config |-> EmptyConfig]
    ELSE [chatbot_config |-> [max_context_examples |-> 10],
          client_config |-> [max_tokens |-> 2034]]

\* the dict object a construction passes as a config: the {} default of the
\* signature, the caller's dict, or a dict that from_persona has just loaded
argument_object(construction, session) ==
    CASE construction = "omitted" -> <<"default argument", 0>>
      [] construction = "same_dicts" -> <<"dict of the caller", 0>>
      [] construction = "same_persona" -> <<"json.load", session>>

\* configure_chatbot, configure_client: the dict object the session keeps
config_object_argument(session, argument) == argument
config_object(session, argument) == <<"dict literal", session>>

\* __init__: self.chat_history = [], self.prompt_size_history = []
list_object(session) == <<"list literal", session>>

Attributes ==
    {"chat_history", "prompt_size_history", "chatbot_config", "client_config"}

object_of(attribute, construction, session) ==
    IF attribute \in {"chatbot_config", "client_config"}
    THEN config_object(session, argument_object(construction, session))
    ELSE list_object(session)

\* the queries and configs of the calls when two sessions are explored
SessionQueries == {<<"hi">>}
SessionChatbotConfigs == {[max_context_examples |-> 1]}
SessionClientConfigs == {[max_tokens |-> 1600]}

InitSessions ==
    \E p \in {q \in ConstructorPrompts : q.headers = Headers(ShortBotLabel)},
       construction \in Constructions :
        /\ Constructed(p, construction_configs(construction).chatbot_config,
                       construction_configs(construction).client_config)
        /\ calls = NoCalls
        /\ other = Self
        /\ aliased = {a \in Attributes :
                        object_of(a, construction, 1) = object_of(a, construction, 2)}
        /\ last = [Last("init", "ok", "none") EXCEPT
                      !.arg = [type |-> construction, value |-> <<>>]]

\* list.append and dict.update change an object in place: the change shows
\* in the other session for the attributes whose object both hold
Written ==
    /\ other' =
          [other EXCEPT
              !.chat_history =
                  IF "chat_history" \in aliased THEN chat_history' ELSE @,
              !.prompt_size_history =
                  IF "prompt_size_history" \in aliased
                  THEN prompt_size_history' ELSE @,
              !.chatbot_config =
                  IF "chatbot_config" \in aliased THEN chatbot_config' ELSE @,
              !.client_config =
                  IF "client_config" \in aliased THEN client_config' ELSE @]
    /\ UNCHANGED <<calls, aliased>>

\* the caller turns to its other session
Switch ==
    /\ prompt' = other.prompt
    /\ chatbot_config' = other.chatbot_config
    /\ client_config' = other.client_config
    /\ chat_history' = other.chat_history
    /\ prompt_size_history' = other.prompt_size_history
    /\ prompt_history' = other.prompt_history
    /\ curr_max_context_examples' = other.curr_max_context_examples
    /\ max_prompt_size' = other.max_prompt_size
    /\ start_prompt_size' = other.start_prompt_size
    /\ other' = Self
    /\ last' = Last("switch", "ok", "none")
    /\ UNCHANGED <<calls, aliased>>

NextSessions ==
    \/ (\E query \in SessionQueries, generation \in Generations :
            Reply(query, generation)) /\ Written
    \/ (\E config \in SessionChatbotConfigs : ConfigureChatbot(config)) /\ Written
    \/ (\E config \in SessionClientConfigs : ConfigureClient(config)) /\ Written
    \/ Switch

SpecSessions == InitSessions /\ [][NextSessions]_vars

-----------------------------------------------------------------------------
(* What the properties are stated with *)

\* the newest n turns of a history, oldest first
Newest(history, n) ==
    SubSeq(history, Len(history) - Min(Max(n, 0), Len(history)) + 1, Len(history))

\* one history turn as it stands in a prompt of template p
TurnText(p, turn) ==
    join([i \in 1..Len(turn) |->
            Get(p.headers, turn[i].key) \o <<":", " ">> \o turn[i].value \o <<"\n">>])

\* the lines that end a prompt: the query, and the bot's label to complete
QueryText(p, query) ==
    Get(p.headers, "user") \o <<":", " ">> \o query \o <<"\n">>
        \o Get(p.headers, "bot") \o <<":", " ">> \o <<"\n">>

\* the prompt made of the template text, the given turns in order, the query
PromptOf(p, turns, query) ==
    strip(to_string(p) \o <<"\n">> \o p.example_separator
          \o join([i \in 1..Len(turns) |-> TurnText(p, turns[i])])
          \o QueryText(p, query))

IsReply == last.op = "reply"
Sent == IsReply /\ last.generate_calls = 1
Configured == chatbot_config.max_context_examples

\* the window get_current_prompt(query) takes from the history a reply started with
FirstWindow == Newest(last.pre.chat_history, Configured)

-----------------------------------------------------------------------------
(* C1: a reply either fails with the prompt-too-large error or the prompt  *)
(* it passes to the generator has at most max_prompt_size tokens.          *)
C1_BudgetInvariant ==
    IsReply =>
        \/ last.status = "too_large"
        \/ tokenize(last.prompt) <= max_prompt_size

(* C2: a reply that fails because the prompt cannot fit the budget does    *)
(* not call the generator and leaves chat_history, prompt_size_history and *)
(* prompt_history exactly as they were before the call.                    *)
C2_FailureLeavesHistory ==
    (IsReply /\ last.status = "too_large") =>
        /\ last.generate_calls = 0
        /\ chat_history = last.pre.chat_history
        /\ prompt_size_history = last.pre.prompt_size_history
        /\ prompt_history = last.pre.prompt_history

\* a reply failed on the budget with turns in the history
C2_Witness ==
    /\ IsReply /\ last.status = "too_large"
    /\ Len(chat_history) >= 1

C4_ConfiguredCeiling ==
    IsReply =>
        /\ chatbot_config = last.pre.chatbot_config
        /\ last.first = PromptOf(prompt, FirstWindow, last.query)

\* the turn before was answered with a shrunk window, this one with more turns
C4_Witness ==
    /\ IsReply /\ last.status = "ok" /\ ~last.shrunk
    /\ last.pre.after_shrunk_turn
    /\ last.pre.curr_max_context_examples < Len(FirstWindow)
    /\ last.pre.curr_max_context_examples < Configured

(* C5: for a configured max_context_examples N >= 0 and a history of h     *)
(* turns, get_current_prompt(query) is the template text, then the last    *)
(* min(N, h) turns in their order, then the query.                         *)
C5_WindowOfPrompt ==
    Configured >= 0 =>
        \A query \in Queries :
            get_current_prompt(query, NoneArg) =
                PromptOf(prompt,
                         Newest(chat_history, Min(Configured, Len(chat_history))),
                         query)

\* more turns are configured than the history has, and the history has turns
C5_Witness ==
    /\ Configured > Len(chat_history)
    /\ Len(chat_history) >= 2
    /\ chat_history[1] # chat_history[2]

(* C6: with max_context_examples = 0 the prompt holds no history turn: it  *)
(* is the template text followed by the query.                             *)
C6_ZeroContext ==
    Configured = 0 =>
        \A query \in Queries :
            get_current_prompt(query, NoneArg) = PromptOf(prompt, <<>>, query)

\* zero turns are configured and the history has turns
C6_Witness ==
    /\ Configured = 0
    /\ Len(chat_history) >= 1

(* C7: when a reply shrinks the window, the turns of the prompt it sends   *)
(* are the newest turns of the window tried first, in their order.         *)
C7_ShrinkKeepsNewest ==
    (Sent /\ last.shrunk) =>
        /\ last.n \in 0..Len(FirstWindow)
        /\ last.prompt = PromptOf(prompt, Newest(FirstWindow, last.n), last.query)

\* a window of two different turns was shrunk to its newest turn
C7_Witness ==
    /\ Sent /\ last.shrunk /\ last.status = "ok"
    /\ Len(FirstWindow) = 2
    /\ last.n = 1
    /\ FirstWindow[1] # FirstWindow[2]

(* C8: in every state of a session client_config's max_tokens is below     *)
(* MAX_GENERATE_TOKENS, also after a configure_client call was rejected.   *)
C8_MaxTokensBelowCap ==
    client_config.max_tokens < MAX_GENERATE_TOKENS

(* C9: a reply fails with the prompt-too-large error exactly when the      *)
(* prompt with zero history turns is over max_prompt_size; it does not     *)
(* fail when some window of the newest turns fits.                         *)
C9_FailsExactlyAtZero ==
    IsReply =>
        /\ (last.status = "too_large") <=>
              (tokenize(PromptOf(prompt, <<>>, last.query)) > max_prompt_size)
        /\ (last.status = "too_large") =>
              \A n \in 0..Len(FirstWindow) :
                  tokenize(PromptOf(prompt, Newest(FirstWindow, n), last.query))
                      > max_prompt_size

(* C10: when the template text alone is over max_prompt_size the reply     *)
(* fails also with max_context_examples = 0, and the error reports the     *)
(* token count of the template's current text.                             *)
C10_StaticCountReported ==
    IsReply =>
        /\ (tokenize(to_string(prompt)) > max_prompt_size /\ Configured = 0) =>
              last.status = "too_large"
        /\ (last.status = "too_large") =>
              last.error.start_prompt = tokenize(to_string(prompt))

(* C11: a successful reply returns the interaction that it appended to     *)
(* chat_history.                                                           *)
C11_ReturnsInteraction ==
    (IsReply /\ last.status = "ok") =>
        /\ last.returned.type = "Interaction"
        /\ last.returned.value = chat_history[Len(chat_history)]

\* text without its last Len(suffix) atoms
WithoutSuffix(text, suffix) == SubSeq(text, 1, Len(text) - Len(suffix))

(* C12: the response kept is the generated text with at most one trailing  *)
(* stop sequence removed, then left-trimmed of whitespace.                 *)
C12_AtMostOneStopRemoved ==
    (last.op = "response") =>
        LET stops == client_config.stop_sequences
        IN  \/ last.response = lstrip(last.text)
            \/ \E i \in 1..Len(stops) :
                  /\ endswith(last.text, stops[i])
                  /\ last.response = lstrip(WithoutSuffix(last.text, stops[i]))

-----------------------------------------------------------------------------
(* The template: construction, update, formatting, serialization *)

FieldNames == {"preamble", "example_separator", "headers", "examples"}
ConstantNames == {"REQUIRED_KEYS", "MIN_PREAMBLE_LENGTH", "MIN_NUM_EXAMPLES"}

KeySet(d) == {d[i].key : i \in 1..Len(d)}

\* the object that the config of the latest from_dict describes
Candidate == ConfigUpdate(ChatPromptDefaults, last.arg.value)

PreambleTooShort(c) == len(c.preamble) < c.MIN_PREAMBLE_LENGTH
SeparatorNotText(c) == c.example_separator = NotStr
RoleMissingFromHeaders(c) ==
    \E k \in 1..Len(c.REQUIRED_KEYS) : c.REQUIRED_KEYS[k] \notin KeySet(c.headers)
InteractionLacksRole(c) ==
    \E e \in 1..Len(c.examples) : \E i \in 1..Len(c.examples[e]) :
        \E k \in 1..Len(c.REQUIRED_KEYS) :
            c.REQUIRED_KEYS[k] \notin KeySet(c.examples[e][i])
TooFewExamples(c) == Len(c.examples) < c.MIN_NUM_EXAMPLES

\* the five conditions listed for a failing construction
StructureBroken(c) ==
    \/ PreambleTooShort(c)
    \/ RoleMissingFromHeaders(c)
    \/ InteractionLacksRole(c)
    \/ TooFewExamples(c)
    \/ SeparatorNotText(c)

\* an interaction of an example is not a pair of utterances
NotPairs(c) ==
    \E e \in 1..Len(c.examples) : \E i \in 1..Len(c.examples[e]) :
        Cardinality(KeySet(c.examples[e][i])) # 2

\* a non-empty example all of whose turns begin with their speaker's name
SpeakerPrefixed(c) ==
    \E e \in 1..Len(c.examples) :
        /\ c.examples[e] # <<>>
        /\ \A i \in 1..Len(c.examples[e]) :
              /\ startswith(lstrip(Get(c.examples[e][i], "user")),
                            Get(c.headers, "user"))
              /\ startswith(lstrip(Get(c.examples[e][i], "bot")),
                            Get(c.headers, "bot"))

C14_RevalidatedOnUpdate ==
    /\ (last.op = "update") =>
           (~post_init(prompt) \/ last.returned.type = "ValueError")
    /\ (last.op = "to_string" /\ last.status = "ok") => ~post_init(prompt)

\* the config of the latest update, and the value it has for a key
UpdateConfig == last.arg.value

\* the index of the first key of config that names a read-only property
FirstProperty(config) ==
    IF \E i \in 1..Len(config) : config[i].key \in PropertyNames
    THEN CHOOSE i \in 1..Len(config) :
            /\ config[i].key \in PropertyNames
            /\ \A j \in 1..(i - 1) : config[j].key \notin PropertyNames
    ELSE Len(config) + 1

(* C15 as stated: update assigns the keys preamble, example_separator,     *)
(* headers and examples of config and nothing else; every other key is     *)
(* ignored and raises nothing.                                             *)
C15_AssignsOnlyTheFourFields ==
    [][(last'.op = "update" /\ Live) =>
          LET config == last'.arg.value
          IN  /\ last'.status = "ok"
              /\ prompt' = [k \in DOMAIN prompt |->
                              IF k \in FieldNames /\ HasKey(config, k)
                              THEN Get(config, k) ELSE prompt[k]]]_vars

(* C15: update assigns, in the order of config, every key that names an    *)
(* attribute of the template: the four fields, the constants REQUIRED_KEYS,*)
(* MIN_PREAMBLE_LENGTH and MIN_NUM_EXAMPLES, and method names; a key that  *)
(* names a read-only property (user_name, bot_name) raises AttributeError  *)
(* and stops the update; keys that name no attribute are ignored.          *)
C15_AssignsEveryAttribute ==
    [][(last'.op = "update" /\ Live) =>
          LET config == last'.arg.value
              stop == FirstProperty(config)
              Assigned(k) ==
                  /\ k \in FieldNames \cup ConstantNames \cup MethodNames
                  /\ \E i \in 1..(stop - 1) : config[i].key = k
          IN  /\ (last'.status = "raised") <=> (stop <= Len(config))
              /\ (last'.status = "raised") => last'.returned.type = "AttributeError"
              /\ DOMAIN prompt' =
                    DOMAIN prompt \cup {k \in KeySet(config) : Assigned(k)}
              /\ \A k \in DOMAIN prompt' :
                    prompt'[k] = IF Assigned(k) THEN Get(config, k) ELSE prompt[k]]_vars

C15_Witness ==
    /\ last.op = "update"
    /\ HasKey(UpdateConfig, "MIN_PREAMBLE_LENGTH")
    /\ prompt.MIN_PREAMBLE_LENGTH = 1

\* the arguments of the latest create_interaction or create_interaction_string
CallArgs == last.arg.value.args
CallKwargs == last.arg.value.kwargs

\* the value of the i-th header key: the keyed value, else the positional
\* value, else the empty string
HeaderValue(i) ==
    LET key == prompt.headers[i].key
    IN  IF HasKey(CallKwargs, key) THEN Get(CallKwargs, key)
        ELSE IF i <= Len(CallArgs) THEN CallArgs[i]
        ELSE <<>>

Line(key, value) == Get(prompt.headers, key) \o <<":", " ">> \o value \o <<"\n">>

(* C17: formatting an interaction given by keyed values emits one line per *)
(* key of the interaction in the order the keys were given, not in header  *)
(* order; with positional values the lines follow the header order.        *)
C17_LinesInInteractionOrder ==
    (last.op = "create_interaction_string" /\ last.status = "ok") =>
        IF CallArgs = <<>>
        THEN last.text = join([i \in 1..Len(CallKwargs) |->
                                  Line(CallKwargs[i].key, CallKwargs[i].value)])
        ELSE last.text = join([i \in 1..Len(prompt.headers) |->
                                  Line(prompt.headers[i].key, HeaderValue(i))])

C17_Witness ==
    /\ last.op = "create_interaction_string"
    /\ last.status = "ok"
    /\ CallArgs = <<>>
    /\ Keys(CallKwargs) = <<"bot", "user">>
    /\ Keys(prompt.headers) = <<"user", "bot">>
    /\ Head(last.text) = "Bot"

(* C18: for every valid template t, from_dict(t.to_dict()) succeeds and is *)
(* equal to t field for field.                                             *)
C18_RoundTrip ==
    (last.op = "round_trip" /\ ~post_init(prompt)) =>
        /\ last.status = "ok"
        /\ \A k \in FieldNames \cup ConstantNames :
              last.returned.value[k] = prompt[k]

-----------------------------------------------------------------------------
(* The configs *)

ChatbotKeys == {"max_context_examples", "avatar"}
ClientKeys ==
    {"model", "max_tokens", "temperature", "frequency_penalty",
     "presence_penalty", "stop_sequences"}

\* config has the keys, the supplied value for each supplied key and the
\* earlier value for the others
MergedOnto(config, keys, supplied, earlier) ==
    /\ keys \subseteq DOMAIN config
    /\ \A k \in DOMAIN config :
          config[k] = IF k \in DOMAIN supplied THEN supplied[k] ELSE earlier[k]

(* C20: after construction with any chatbot_config and client_config each  *)
(* config holds all of its keys, with the supplied value for a supplied    *)
(* key and the documented default for the others; a later configure call   *)
(* changes exactly the keys it supplies, so a key never supplied keeps its *)
(* default.                                                                *)
C20_SuppliedOverDefaults ==
    /\ MergedOnto(chatbot_config, ChatbotKeys, last.arg.value.chatbot_config,
                  [max_context_examples |-> 10, avatar |-> ":robot:"])
    /\ MergedOnto(client_config, ClientKeys, last.arg.value.client_config,
                  [model |-> "xlarge", max_tokens |-> 100, temperature |-> 75,
                   frequency_penalty |-> 0, presence_penalty |-> 0,
                   stop_sequences |-> << <<"\n">> >>])
    /\ [][/\ (last'.op = "configure_chatbot") =>
                /\ MergedOnto(chatbot_config', ChatbotKeys, last'.arg.value,
                              chatbot_config)
                /\ client_config' = client_config
          /\ (last'.op = "configure_client") =>
                /\ MergedOnto(client_config', ClientKeys, last'.arg.value,
                              client_config)
                /\ chatbot_config' = chatbot_config]_vars

C20_Witness ==
    /\ last.op = "configure_client"
    /\ DOMAIN last.arg.value = {"temperature"}
    /\ client_config.temperature = 50
    /\ client_config.model = "medium"
    /\ client_config.presence_penalty = 0
    /\ chatbot_config.avatar = ":cat:"
    /\ chatbot_config.max_context_examples = 10

-----------------------------------------------------------------------------
(* The persona document *)

\* the shape of a persona document: its sub-objects, their keys and types
PersonaShape ==
    [chat_prompt_config |-> [k \in {} |-> "none"],
     chatbot_config |-> [max_context_examples |-> "integer", avatar |-> "string"],
     client_config |->
        [model |-> "string", max_tokens |-> "integer", temperature |-> "number",
         frequency_penalty |-> "number", presence_penalty |-> "number",
         stop_sequences |-> "array"]]

HasJsonType(v, type) ==
    \/ v.type = type
    \/ type = "number" /\ v.type = "integer"

ViolatesShape(persona) ==
    \E sub \in DOMAIN PersonaShape :
        \/ sub \notin DOMAIN persona.value
        \/ persona.value[sub].type # "object"
        \/ \E k \in DOMAIN PersonaShape[sub] :
              \/ k \notin DOMAIN persona.value[sub].value
              \/ ~HasJsonType(persona.value[sub].value[k], PersonaShape[sub][k])

(* C19: loading a persona document that violates the persona shape (a      *)
(* sub-object or key missing, or a value of the wrong type) fails with a   *)
(* schema validation error and constructs no session.                      *)
C19_ShapeViolationRejected ==
    (last.op = "from_persona" /\ ViolatesShape(last.arg)) =>
        /\ last.status = "raised"
        /\ last.returned.type = "ValidationError"
        /\ ~Live

\* the errors co.generate raises
GenerateErrors == {g.error : g \in {h \in Generations : h.raised}}

(* C23: a reply whose call of the generator fails hands the generator's     *)
(* error to its caller, has called the generator once and not again, and    *)
(* leaves chat_history and prompt_size_history as they were.                *)
C23_GeneratorFailurePropagates ==
    (IsReply /\ last.status = "generate_failed") =>
        /\ last.returned.type \in GenerateErrors
        /\ last.generate_calls = 1
        /\ chat_history = last.pre.chat_history
        /\ prompt_size_history = last.pre.prompt_size_history

\* the generator fails in a reply that had shrunk its window of a kept history
C23_Witness ==
    /\ IsReply
    /\ last.status = "generate_failed"
    /\ last.shrunk
    /\ Len(chat_history) >= 2

(* C24: prompt_size_history is as long as chat_history, and its entry i is  *)
(* the token cost of chat_history[i] as the current template renders that   *)
(* turn into the prompt.                                                    *)
C24_SizesFollowTurns ==
    /\ Len(prompt_size_history) = Len(chat_history)
    /\ \A i \in 1..Len(chat_history) :
          i <= Len(prompt_size_history) =>
              prompt_size_history[i] = tokenize(TurnText(prompt, chat_history[i]))

(* C25: after construction, configure_client and reply, max_prompt_size is  *)
(* MAX_GENERATE_TOKENS minus the current client_config max_tokens, so the   *)
(* tokens of a sent prompt plus max_tokens are within MAX_GENERATE_TOKENS.  *)
C25_BudgetFollowsMaxTokens ==
    last.op \in {"init", "configure_client", "reply"} =>
        /\ max_prompt_size = MAX_GENERATE_TOKENS - client_config.max_tokens
        /\ Sent => tokenize(last.prompt) + client_config.max_tokens
                       <= MAX_GENERATE_TOKENS

\* the prompt of the reply, had it used the newest n turns, is within budget
Fits(n) ==
    tokenize(PromptOf(prompt, Newest(last.pre.chat_history, n), last.query))
        <= max_prompt_size

(* C26: a reply that shrinks its window uses the largest N, at most the     *)
(* configured max_context_examples and the number of turns kept, for which  *)
(* the template text, the newest N turns and the query are within           *)
(* max_prompt_size.                                                         *)
C26_ShrinkReturnsLargestFit ==
    (Sent /\ last.shrunk) =>
        /\ last.n <= Min(Configured, Len(last.pre.chat_history))
        /\ Fits(last.n)
        /\ \A n \in (last.n + 1)..Min(Configured, Len(last.pre.chat_history)) :
              ~Fits(n)

(* C27 as the specification states it: a successful reply warns of a        *)
(* reduction exactly when it used fewer history turns than the configured   *)
(* window holds, and the warning reports the reduction from the configured  *)
(* max_context_examples to the effective value.                             *)
C27_ReductionWarning ==
    (IsReply /\ last.status = "ok") =>
        /\ (last.warning \in {"changed", "continues"}) <=> last.shrunk
        /\ last.warning = "changed" =>
              last.reported = [from |-> Configured, to |-> last.n]

(* C27: a successful reply warns of a reduction exactly when it used fewer  *)
(* history turns than the configured window holds; the warning reports the  *)
(* effective value N, as a change from curr_max_context_examples (the       *)
(* value the session held when the reply began) to N when the two differ,   *)
(* and as N continuing when they are equal.                                 *)
C27_ReductionWarningFromCurrent ==
    (IsReply /\ last.status = "ok") =>
        /\ (last.warning \in {"changed", "continues"}) <=> last.shrunk
        /\ last.shrunk => last.reported.to = last.n
        /\ last.warning = "changed" =>
              /\ last.reported.from = last.pre.curr_max_context_examples
              /\ last.reported.from # last.n
        /\ last.warning = "continues" =>
              last.n = last.pre.curr_max_context_examples

\* a reduction is reported from the value an earlier reduction left, below
\* the configured one
C27_Witness ==
    /\ IsReply
    /\ last.status = "ok"
    /\ last.warning = "changed"
    /\ last.reported.from < Configured
    /\ last.pre.latest_reply = "shrunk"
    /\ last.reported.from = last.pre.curr_max_context_examples

\* texts with a separator between consecutive ones
RECURSIVE JoinedBy(_, _)
JoinedBy(sep, texts) ==
    IF texts = <<>> THEN <<>>
    ELSE IF Len(texts) = 1 THEN texts[1]
    ELSE texts[1] \o sep \o JoinedBy(sep, Tail(texts))

\* the turns of a window as they stand in a prompt
TurnTexts(turns) == [i \in 1..Len(turns) |-> TurnText(prompt, turns[i])]

(* C28 as the specification states it: the prompt a reply assembles is the  *)
(* template text and a newline, then the turns of the window with           *)
(* example_separator between consecutive turns, then the query-only         *)
(* interaction (read up to the whitespace around the whole).                *)
C28_PromptLayout ==
    IsReply =>
        last.first = strip(to_string(prompt) \o <<"\n">>
                             \o JoinedBy(prompt.example_separator,
                                         TurnTexts(FirstWindow))
                             \o QueryText(prompt, last.query))

(* C28: the prompt a reply assembles is the template text and a newline,    *)
(* then example_separator once, then the turns of the window one after the  *)
(* other with nothing between them, then the query-only interaction, the    *)
(* whole stripped of leading and trailing whitespace; the prompt of a       *)
(* shrunk window is laid out the same way.                                  *)
C28_PromptLayoutSeparatorOnce ==
    IsReply =>
        /\ last.first = strip(to_string(prompt) \o <<"\n">>
                                \o prompt.example_separator
                                \o join(TurnTexts(FirstWindow))
                                \o QueryText(prompt, last.query))
        /\ Sent =>
              last.prompt =
                  strip(to_string(prompt) \o <<"\n">>
                          \o prompt.example_separator
                          \o join(TurnTexts(Newest(last.pre.chat_history, last.n)))
                          \o QueryText(prompt, last.query))

\* a reply assembles a prompt with two different turns in its window
C28_Witness ==
    /\ IsReply
    /\ Len(FirstWindow) >= 2
    /\ FirstWindow[1] # FirstWindow[2]

\* PromptChatbot.latest_prompt
latest_prompt == prompt_history[Len(prompt_history)]

\* this step is a reply that succeeds
SuccessfulReply ==
    /\ last' # last
    /\ last'.op = "reply"
    /\ last'.status = "ok"

(* C29: prompt_history starts as the template text alone; a successful      *)
(* reply appends the prompt it passed to the generator, which is then       *)
(* latest_prompt, and no other step changes prompt_history, so it has one   *)
(* entry more than there were successful replies and its first entry stays  *)
(* the template text of construction.                                       *)
C29_PromptHistory ==
    /\ prompt_history = <<to_string(prompt)>>
    /\ [][IF SuccessfulReply
          THEN /\ prompt_history' = Append(prompt_history, last'.prompt)
               /\ latest_prompt' = last'.prompt
               /\ Len(chat_history') = Len(chat_history) + 1
               /\ Len(prompt_history') = Len(chat_history') + 1
          ELSE /\ prompt_history' = prompt_history
               /\ chat_history' = chat_history]_vars

\* a successful reply sent a shrunk prompt, and that one is the latest prompt
C29_Witness ==
    /\ IsReply
    /\ last.status = "ok"
    /\ last.shrunk
    /\ Len(prompt_history) >= 3
    /\ latest_prompt = last.prompt
    /\ last.prompt # last.first

(* C30: a reply warns that max_context_examples returned to the configured  *)
(* value only when the reply before it, the latest that reached the         *)
(* generator, had shrunk its window: not when no earlier reply shrank, and  *)
(* not again on later replies that fit.                                     *)
C30_ReturnedOnlyAfterShrunkTurn ==
    (IsReply /\ last.warning = "returned") =>
        last.pre.latest_reply = "shrunk"

\* the warning is given again by a reply that follows a reply that fitted
C30_WarnedAgain ==
    /\ IsReply
    /\ last.warning = "returned"
    /\ last.pre.latest_reply = "fit"
    /\ last.pre.after_shrunk_turn = FALSE
    /\ last.pre.curr_max_context_examples < Configured

\* the callers that are inside reply()
InFlight == {c \in Callers : calls[c].pc # "idle"}

\* the state of the session
SessionState == IF InFlight = {} THEN "Ready" ELSE "Replying"

\* the turn a call appends
TurnOf(c) ==
    create_interaction(prompt, <<calls[c].query, calls[c].response>>, <<>>)

C22_SessionsIndependent ==
    [][last'.op \in {"reply", "configure_chatbot", "configure_client"} =>
          /\ other'.chat_history = other.chat_history
          /\ other'.prompt_size_history = other.prompt_size_history
          /\ other'.chatbot_config = other.chatbot_config
          /\ other'.client_config = other.client_config]_vars

\* two sessions built without configs have each replied and been configured,
\* and differ in every one of the four attributes
C22_Witness ==
    /\ max_prompt_size = MAX_GENERATE_TOKENS - DefaultClientConfig.max_tokens
    /\ other.max_prompt_size = max_prompt_size
    /\ last.op = "reply"
    /\ Len(chat_history) >= 1
    /\ Len(other.chat_history) > Len(chat_history)
    /\ other.prompt_size_history # prompt_size_history
    /\ other.chatbot_config # chatbot_config
    /\ other.client_config # client_config
    /\ chatbot_config # ConfigUpdate(DefaultChatbotConfig, EmptyConfig)
    /\ other.client_config # ConfigUpdate(DefaultClientConfig, EmptyConfig)
====
